---- MODULE Spec2Model ----
(***************************************************************************)
(* Model of src/shell.py: the Shell command runner, its class-level KEYS   *)
(* table, the module-level default instance and set_locale.                *)
(*                                                                         *)
(* Strings that the code only stores or compares (locale names, variable   *)
(* names, values) are TLA+ strings.  Command lines, which the code         *)
(* tokenizes, are sequences of one-character strings.  Times are tenths    *)
(* of a second.                                                            *)
(***************************************************************************)
EXTENDS Integers, Sequences, FiniteSets, TLC

VARIABLES
    KEYS,      \* the class attribute Shell.KEYS (one dict object for the class)
    shells,    \* the Shell instances, in construction order; each has .locale
    locale,    \* the module-level name `locale`
    environ,   \* os.environ of the parent process
    child,     \* the process spawned by the most recent run
    lastSet,   \* history: argument of the most recent successful set_locale
    last       \* history: the most recent call, its arguments and its outcome

vars == <<KEYS, shells, locale, environ, child, lastSet, last>>

----------------------------------------------------------------------------
(* Bounds *)

MaxShells == 2

----------------------------------------------------------------------------
(* Input alphabets *)

Locales == {"english", "italian"}

LocaleNames == Locales \cup {"klingon"}

EnvNames == {"LC_ALL", "LANG"}

EnvValues == {"C", "it_IT"}

Envs == UNION {[D -> EnvValues] : D \in SUBSET EnvNames}

EmptyEnv == [k \in {} |-> "C"]

KeyOverrides == {[k \in {"LOCALE_KEY"} |-> v] : v \in {"LANG", "LC_ALL"}}

\* timeout=0.1 and the default timeout=60
Timeouts == {1, 600}

cmd_true == <<"t","r","u","e">>

cmd_false == <<"f","a","l","s","e">>

cmd_sleep == <<"s","l","e","e","p">>

cmd_printf == <<"p","r","i","n","t","f">>

\* "sleep 5"
cmd_sleep5 == cmd_sleep \o <<" ","5">>

\* "'sleep 5'"
cmd_quoted_sleep5 == <<"'">> \o cmd_sleep5 \o <<"'">>

\* "printf '%s' 'a b'"
cmd_printf_ab == cmd_printf \o <<" ","'","%","s","'"," ","'","a"," ","b","'">>

\* "nosuch"
cmd_nosuch == <<"n","o","s","u","c","h">>

\* "'a"  (no closing quotation)
cmd_unclosed == <<"'","a">>

Commands == {cmd_true, cmd_false, cmd_sleep5, cmd_quoted_sleep5,
             cmd_printf_ab, cmd_nosuch, cmd_unclosed}

----------------------------------------------------------------------------
(* Pure helpers *)

\* dict.update: entries of u replace or extend those of d
Update(d, u) ==
    [k \in DOMAIN d \cup DOMAIN u |-> IF k \in DOMAIN u THEN u[k] ELSE d[k]]

\* the index of the module-level default instance in shells
default_shell == 1

\* the table inside _get_locale_env
locale_map == [l \in Locales |-> IF l = "english" THEN "en_US" ELSE "it_IT"]

\* always english: the instance's locale is ignored
get_locale_env_fixed(s) ==
    [k \in {KEYS["LOCALE_KEY"]} |-> locale_map["english"]]

get_locale_env(s) ==
    [k \in {KEYS["LOCALE_KEY"]} |-> locale_map[shells[s].locale]]

\* env = env if env is not None else os.environ.copy()
ResolveEnv(envGiven, env) == IF envGiven THEN env ELSE environ

\* injects unconditionally
InjectLocaleAlways(s, env) == Update(env, get_locale_env(s))

\* if self.KEYS["LOCALE_KEY"] not in env: env.update(self._get_locale_env())
InjectLocale(s, env) ==
    IF KEYS["LOCALE_KEY"] \notin DOMAIN env
    THEN Update(env, get_locale_env(s))
    ELSE env

\* shlex in POSIX mode over the alphabet of Commands (letters, space, single
\* quote).  state is " " (between tokens), "a" (in a word) or "'" (in quotes).
RECURSIVE Lex(_, _, _, _, _, _)
Lex(s, i, state, token, quoted, out) ==
    IF i > Len(s)
    THEN IF state = "'"
         THEN [ok |-> FALSE, tokens |-> <<>>]
         ELSE [ok |-> TRUE,
               tokens |-> IF state = "a" /\ (token # <<>> \/ quoted)
                          THEN Append(out, token) ELSE out]
    ELSE LET c == s[i] IN
         CASE state = " " ->
                IF c = " " THEN Lex(s, i + 1, " ", <<>>, FALSE, out)
                ELSE IF c = "'" THEN Lex(s, i + 1, "'", <<>>, TRUE, out)
                ELSE Lex(s, i + 1, "a", <<c>>, FALSE, out)
           [] state = "'" ->
                IF c = "'" THEN Lex(s, i + 1, "a", token, TRUE, out)
                ELSE Lex(s, i + 1, "'", Append(token, c), TRUE, out)
           [] OTHER ->
                IF c = " "
                THEN Lex(s, i + 1, " ", <<>>, FALSE,
                         IF token # <<>> \/ quoted THEN Append(out, token) ELSE out)
                ELSE IF c = "'" THEN Lex(s, i + 1, "'", token, TRUE, out)
                ELSE Lex(s, i + 1, "a", Append(token, c), quoted, out)

\* shlex.split(command): ok = FALSE stands for ValueError
Split(command) == Lex(command, 1, " ", <<>>, FALSE, <<>>)

\* the strings that get tokenized: the command lines, and the first token of
\* each, which a shell parses again
Words ==
    Commands \cup {Split(c).tokens[1] : c \in {w \in Commands : Split(w).ok}}

\* Split, tabulated over Words
Tokenized == [w \in Words |-> Split(w)]

\* What the programs named in Commands do with the argument vector they get:
\* whether the program exists, how long it runs, its exit status, its stdout.
Program(argv) ==
    CASE argv[1] = cmd_true  -> [found |-> TRUE, duration |-> 0, status |-> 0, out |-> <<>>]
      [] argv[1] = cmd_false -> [found |-> TRUE, duration |-> 0, status |-> 1, out |-> <<>>]
      [] argv[1] = cmd_sleep ->
            IF Len(argv) >= 2
            THEN [found |-> TRUE, duration |-> 50, status |-> 0, out |-> <<>>]
            ELSE [found |-> TRUE, duration |-> 0, status |-> 1, out |-> <<>>]
      [] argv[1] = cmd_printf ->
            IF Len(argv) >= 3
            THEN [found |-> TRUE, duration |-> 0, status |-> 0, out |-> argv[3]]
            ELSE IF Len(argv) = 2
            THEN [found |-> TRUE, duration |-> 0, status |-> 0, out |-> <<>>]
            ELSE [found |-> TRUE, duration |-> 0, status |-> 2, out |-> <<>>]
      [] OTHER -> [found |-> FALSE, duration |-> 0, status |-> 127, out |-> <<>>]

\* The argument vector the invoked program receives from Popen(cmds, shell=..).
\* With shell=True and a list, Popen runs ["/bin/sh", "-c"] + cmds: the shell
\* takes cmds[0] alone as the command string and parses it; the other items
\* become the shell's own positional parameters.
ProgramArgv(cmds, shell) == IF shell THEN Tokenized[cmds[1]].tokens ELSE cmds

\* check is not honoured
CompletedUnchecked(check, status, out) ==
    [outcome |-> "CompletedProcess", returncode |-> status, output |-> out]

\* subprocess.run after the child has exited: check decides raise or return
Completed(check, status, out) ==
    IF check /\ status # 0
    THEN [outcome |-> "ShellError", returncode |-> status, output |-> out]
    ELSE [outcome |-> "CompletedProcess", returncode |-> status, output |-> out]

\* subprocess.run(cmds, timeout=.., check=.., shell=..) for a non-empty cmds
subprocess_run(cmds, timeout, check, shell) ==
    LET argv == ProgramArgv(cmds, shell)
        p    == Program(argv)
    IN  IF ~shell /\ ~p.found
        THEN [outcome |-> "FileNotFoundError", returncode |-> 0, output |-> <<>>,
              spawned |-> FALSE, child |-> "none", status |-> 0, out |-> <<>>,
              argv |-> <<>>]
        ELSE IF p.duration > timeout
        THEN [outcome |-> "ShellTimeout", returncode |-> 0, output |-> <<>>,
              spawned |-> TRUE, child |-> "killed", status |-> 0, out |-> <<>>,
              argv |-> argv]
        ELSE LET c == Completed(check, p.status, p.out)
             IN  [outcome |-> c.outcome, returncode |-> c.returncode,
                  output |-> c.output, spawned |-> TRUE, child |-> "exited",
                  status |-> p.status, out |-> p.out, argv |-> argv]

----------------------------------------------------------------------------
(* State *)

NoCall ==
    [op |-> "none", shell |-> 0, name |-> "", command |-> <<>>, timeout |-> 0,
     check |-> FALSE, useShell |-> FALSE, envGiven |-> FALSE,
     envBefore |-> EmptyEnv, envAfter |-> EmptyEnv, base |-> EmptyEnv,
     childEnv |-> EmptyEnv, popenArgs |-> <<>>, argsKind |-> "none",
     argv |-> <<>>, spawned |-> FALSE, status |-> 0, out |-> <<>>,
     outcome |-> "none", returncode |-> 0, output |-> <<>>]

\* _default_shell = Shell(); locale = _default_shell.locale
Init ==
    /\ KEYS = [k \in {"LOCALE_KEY"} |-> "LC_ALL"]
    /\ shells = <<[locale |-> "english"]>>
    /\ locale = "english"
    /\ environ \in Envs
    /\ child = "none"
    /\ lastSet = "none"
    /\ last = NoCall

----------------------------------------------------------------------------
(* Operations *)

\* Shell(_locale, keys): keysGiven = FALSE stands for keys=None
NewShell(loc, keysGiven, keys) ==
    /\ Len(shells) < MaxShells
    /\ shells' = Append(shells, [locale |-> loc])
    /\ KEYS' = IF keysGiven THEN Update(KEYS, keys) ELSE KEYS
    /\ last' = [NoCall EXCEPT !.op = "Shell", !.shell = Len(shells) + 1,
                              !.name = loc, !.outcome = "None"]
    /\ UNCHANGED <<locale, environ, child, lastSet>>

\* an unknown name resets the default instance to english before failing
set_locale_reset(locale_) ==
    /\ shells' = [shells EXCEPT ![default_shell].locale =
                     IF locale_ \in Locales THEN locale_ ELSE "english"]
    /\ lastSet' = IF locale_ \in Locales THEN locale_ ELSE lastSet
    /\ last' = [NoCall EXCEPT !.op = "set_locale", !.shell = default_shell,
                              !.name = locale_,
                              !.outcome = IF locale_ \in Locales
                                          THEN "None" ELSE "KeyError"]
    /\ UNCHANGED <<KEYS, locale, environ, child>>

set_locale(locale_) ==
    /\ IF locale_ \in Locales
       THEN /\ shells' = [shells EXCEPT ![default_shell].locale = locale_]
            /\ lastSet' = locale_
            /\ last' = [NoCall EXCEPT !.op = "set_locale",
                                      !.shell = default_shell,
                                      !.name = locale_, !.outcome = "None"]
       ELSE /\ UNCHANGED <<shells, lastSet>>
            /\ last' = [NoCall EXCEPT !.op = "set_locale",
                                      !.shell = default_shell,
                                      !.name = locale_, !.outcome = "KeyError"]
    /\ UNCHANGED <<KEYS, locale, environ, child>>

\* The record of one call s.run(command, timeout=, env=, check=, shell=)
RunCall(s, command, timeout, envGiven, env, check, shell) ==
    LET base == ResolveEnv(envGiven, env)
        env2 == InjectLocale(s, base)
        cmds == Tokenized[command]
        call == [NoCall EXCEPT !.op = "run", !.shell = s, !.command = command,
                               !.timeout = timeout, !.check = check,
                               !.useShell = shell, !.envGiven = envGiven,
                               !.envBefore = IF envGiven THEN env ELSE EmptyEnv,
                               !.envAfter = IF envGiven THEN env2 ELSE EmptyEnv,
                               !.base = base]
    IN  IF ~cmds.ok
        THEN [call EXCEPT !.outcome = "ValueError"]
        ELSE LET r == subprocess_run(cmds.tokens, timeout, check, shell)
             IN  [call EXCEPT !.popenArgs = cmds.tokens, !.argsKind = "list",
                              !.argv = r.argv, !.spawned = r.spawned,
                              !.childEnv = IF r.spawned THEN env2 ELSE EmptyEnv,
                              !.status = r.status, !.out = r.out,
                              !.outcome = r.outcome,
                              !.returncode = r.returncode, !.output = r.output]

\* the state of the process spawned by the call ("none" when none was)
ChildAfter(s, command, timeout, envGiven, env, check, shell) ==
    LET cmds == Tokenized[command]
    IN  IF cmds.ok
        THEN subprocess_run(cmds.tokens, timeout, check, shell).child
        ELSE "none"

\* run falls back to the default locale for the next call
run_resetting(s, command, timeout, envGiven, env, check, shell) ==
    /\ last' = RunCall(s, command, timeout, envGiven, env, check, shell)
    /\ child' = ChildAfter(s, command, timeout, envGiven, env, check, shell)
    /\ shells' = [shells EXCEPT ![s].locale = "english"]
    /\ UNCHANGED <<KEYS, locale, environ, lastSet>>

run(s, command, timeout, envGiven, env, check, shell) ==
    /\ last' = RunCall(s, command, timeout, envGiven, env, check, shell)
    /\ child' = ChildAfter(s, command, timeout, envGiven, env, check, shell)
    /\ UNCHANGED <<KEYS, shells, locale, environ, lastSet>>

\* Calls of the environment study: every environment, on every instance, with
\* a command that spawns and one that fails before spawning.
EnvCommands == {cmd_true, cmd_unclosed}

DefaultTimeout == 600

Next ==
    \/ \E loc \in Locales : NewShell(loc, FALSE, EmptyEnv)
    \/ \E loc \in Locales, keys \in KeyOverrides : NewShell(loc, TRUE, keys)
    \/ \E n \in LocaleNames : set_locale(n)
    \/ \E s \in DOMAIN shells, c \in EnvCommands :
          run(s, c, DefaultTimeout, FALSE, EmptyEnv, FALSE, TRUE)
    \/ \E s \in DOMAIN shells, c \in EnvCommands, env \in Envs :
          run(s, c, DefaultTimeout, TRUE, env, FALSE, TRUE)

Spec == Init /\ [][Next]_vars

\* Calls of the process study: every command, timeout, check and shell flag,
\* on every instance, with the environment inherited from an empty parent one.
InitProc == Init /\ environ = EmptyEnv

NextProc ==
    \/ \E loc \in Locales : NewShell(loc, FALSE, EmptyEnv)
    \/ \E loc \in Locales, keys \in KeyOverrides : NewShell(loc, TRUE, keys)
    \/ \E n \in LocaleNames : set_locale(n)
    \/ \E s \in DOMAIN shells, c \in Commands, t \in Timeouts,
          check \in BOOLEAN, shell \in BOOLEAN :
          run(s, c, t, FALSE, EmptyEnv, check, shell)

SpecProc == InitProc /\ [][NextProc]_vars

----------------------------------------------------------------------------
(* Properties *)

\* the environment variable name the runner injects under
LocaleKey == KEYS["LOCALE_KEY"]

\* a call of the module-level run with no env argument that spawned a child,
\* made after a successful set_locale
DefaultRunAfterSet ==
    /\ last.op = "run"
    /\ last.shell = default_shell
    /\ ~last.envGiven
    /\ last.spawned
    /\ lastSet \in Locales

\* C1 as stated: after a successful set_locale(v), run with no explicit env
\* gives the child the locale variable set to the table string of v, whatever
\* the parent environment contains.
C1_Original ==
    DefaultRunAfterSet =>
        /\ LocaleKey \in DOMAIN last.childEnv
        /\ last.childEnv[LocaleKey] = locale_map[lastSet]

\* C1 amended: after a successful set_locale(v), run with no explicit env gives
\* the child the locale variable set to the table string of v provided the
\* parent environment does not define that variable; when the parent defines
\* it, the child receives the parent's value.
C1_InjectedUnlessInherited ==
    DefaultRunAfterSet =>
        /\ LocaleKey \in DOMAIN last.childEnv
        /\ last.childEnv[LocaleKey] =
              IF LocaleKey \in DOMAIN environ
              THEN environ[LocaleKey]
              ELSE locale_map[lastSet]

C1_Witness ==
    /\ DefaultRunAfterSet
    /\ lastSet = "italian"
    /\ LocaleKey \notin DOMAIN environ
    /\ last.childEnv[LocaleKey] = "it_IT"

\* C2: when the env passed to run already has the configured locale variable,
\* the child's environment has it with the caller's value.
C2_CallerValueKept ==
    (/\ last.op = "run"
     /\ last.envGiven
     /\ last.spawned
     /\ LocaleKey \in DOMAIN last.envBefore)
    => /\ LocaleKey \in DOMAIN last.childEnv
       /\ last.childEnv[LocaleKey] = last.envBefore[LocaleKey]

C2_Witness ==
    /\ last.op = "run"
    /\ last.envGiven
    /\ last.spawned
    /\ shells[last.shell].locale = "italian"
    /\ LocaleKey \in DOMAIN last.envBefore
    /\ last.childEnv[LocaleKey] = "C"

\* C3: set_locale with a name that is no Locale variant fails with KeyError (a
\* LookupError) and leaves the instances' locales, hence what the default
\* runner injects, as they were.
C3_UnknownLocaleNoChange ==
    [][(last'.op = "set_locale" /\ last'.name \notin Locales)
        => /\ last'.outcome = "KeyError"
           /\ shells' = shells
           /\ lastSet' = lastSet
           /\ get_locale_env(default_shell)' = get_locale_env(default_shell)]_vars

C3_Witness ==
    /\ last.op = "set_locale"
    /\ last.name = "klingon"
    /\ last.outcome = "KeyError"
    /\ shells[default_shell].locale = "italian"

\* C4: when the child exits with a non-zero status, run with check raises
\* ShellError carrying that status and the captured output, and run without
\* check returns a result with that status; when the child exits with 0, run
\* returns a result with exit code 0 for either value of check.
C4_CheckDecidesRaise ==
    (last.op = "run" /\ child = "exited") =>
        /\ last.returncode = last.status
        /\ last.output = last.out
        /\ last.outcome = IF last.check /\ last.status # 0
                          THEN "ShellError" ELSE "CompletedProcess"

C4_Witness ==
    /\ last.op = "run"
    /\ child = "exited"
    /\ last.check
    /\ last.status = 1
    /\ last.outcome = "ShellError"
    /\ last.returncode = 1

\* the program named by the command line, run with the command line's arguments
NamedProgram(command) == Program(Split(command).tokens)

\* C5 as stated: when the program named by the command does not exit within
\* the timeout, run raises ShellTimeout and the spawned process is terminated;
\* run never returns or raises with its child still running.
C5_Original ==
    /\ child # "running"
    /\ (/\ last.op = "run"
        /\ Split(last.command).ok
        /\ NamedProgram(last.command).found
        /\ NamedProgram(last.command).duration > last.timeout)
       => (last.outcome = "ShellTimeout" /\ child = "killed")

\* C6 as stated: run hands Popen the token list when shell is false and the
\* raw command string when shell is true, and in both modes the invoked
\* program receives every argument of the command line.
C6_Original ==
    (last.op = "run" /\ last.spawned) =>
        /\ last.argsKind = IF last.useShell THEN "str" ELSE "list"
        /\ last.argv = Split(last.command).tokens

\* C7: run leaves every instance's locale and the KEYS mapping as they were,
\* whatever its outcome; the default runner's locale differs only after a
\* successful set_locale.
C7_RunReadsConfiguration ==
    [][/\ (last'.op = "run") => (shells' = shells /\ KEYS' = KEYS)
       /\ (shells'[default_shell].locale # shells[default_shell].locale)
            => (last'.op = "set_locale" /\ last'.outcome = "None")]_vars

C7_Witness ==
    /\ last.op = "run"
    /\ last.outcome = "ShellTimeout"
    /\ shells[last.shell].locale = "italian"
    /\ LocaleKey = "LANG"

\* the variables run added to the resolved environment
Injected == DOMAIN last.childEnv \ DOMAIN last.base

\* C8 as stated: constructing a Shell with a keys override changes only the
\* new instance's mapping, so the default instance still injects under LC_ALL.
C8_Original ==
    (last.op = "run" /\ last.spawned /\ last.shell = default_shell)
        => Injected \subseteq {"LC_ALL"}

\* C9 as stated: the module-level locale equals the default runner's locale.
C9_Original == locale = shells[default_shell].locale

\* C10 as stated: run modifies neither the parent environment nor a
\* caller-supplied mapping that lacks the locale variable.
C10_Original ==
    (last.op = "run") =>
        /\ ~last.envGiven => environ = last.base
        /\ (last.envGiven /\ LocaleKey \notin DOMAIN last.envBefore)
              => last.envAfter = last.envBefore

====
